---------------------------- MODULE Spec2Model ----------------------------
(***************************************************************************)
(* Model of the action dispatch layer (ActionOrchestrator) and of the      *)
(* worker-loop lifecycle shared by ActionOrchestrator and                    *)
(* BackgroundOrchestrator.                                                   *)
(*                                                                           *)
(* The specifications share the variables below:                             *)
(*   SpecNorm          _normalize_action applied to bounded inputs           *)
(*   SpecDispatch      promise()/flush_promises() and the asyncio tasks,     *)
(*                     in every execution mode                               *)
(*   SpecSequential, SpecConcurrent, SpecDependencies                        *)
(*                     the same, in one execution mode                       *)
(*   SpecLoop          start()/stop() and the worker loops of the pool       *)
(*   SpecLoopFair      SpecLoop with the fairness of the thread scheduler    *)
(*   SpecOneCycle, SpecOneCycleFair                                          *)
(*                     dependencies mode with one promise() call, without    *)
(*                     and with the fairness of the event loop               *)
(*   SpecPool          start() and the worker loops with one collaborator    *)
(*                     more than the cap of the pool                         *)
(* Each specification leaves the variables of the others at their initial    *)
(* values.                                                                   *)
(*                                                                           *)
(* Outside the model: the construction of a connector's input value from     *)
(* action.value (taken to succeed), cancellation of tasks, and what the      *)
(* connectors themselves do; connect() and tick()/run() are collaborators    *)
(* that return, raise, or (tick/run) do not return.                          *)
(***************************************************************************)
EXTENDS Naturals, Integers, Sequences, FiniteSets, TLC

VARIABLES
    \* ---- configuration
    agents,       \* config.agent_actions (config.backgrounds), by llm_label (name)
    \* ---- normalization harness
    normIn,       \* the action given to _normalize_action
    normOut,      \* the action after the calls made so far
    normCalls,    \* how many times _normalize_action has been applied (0..2)
    \* ---- dispatch (asyncio side of ActionOrchestrator)
    mode,         \* _execution_mode
    deps,         \* _action_dependencies: label -> sequence of labels
    completed,    \* _completed_actions: label -> event identity <<cycle, label>>
    evSet,        \* the asyncio.Event objects that are set
    queue,        \* promise_queue: sequence of task identities
    tasks,        \* task identity -> task record
    cycle,        \* number of promise() calls made so far
    pc,           \* position of the caller: "idle", "promise", "flush"
    batch,        \* actions list of the current/last promise() (mutated in place)
    pos,          \* loop index of _promise_sequential in batch
    flushSet,     \* the set asyncio.wait is waiting on
    ret,          \* what the last promise()/flush_promises() call returned
    given,        \* number of actions handed to promise() so far
    \* ---- worker loops (thread side of both orchestrators)
    submitted,    \* _submitted_connectors / _submitted_backgrounds
    workItems,    \* work items handed to the executor, in submission order
    loopPc,       \* per work item: position of its _run_connector_loop
    stopEvent,    \* _stop_event.is_set()
    shutdown,     \* the executor has been shut down
    stopPc,       \* position of stop(): "none", "joining", "returned"
    startCalls,   \* start() calls made so far
    startRaised,  \* the last start() call raised
    stepKind,     \* per collaborator: what its step operation does
    lateSteps     \* per work item: step invocations begun after the stop signal

normVars == <<normIn, normOut, normCalls>>
dispatchVars == <<mode, deps, completed, evSet, queue, tasks, cycle, pc, batch,
                  pos, flushSet, ret, given>>
loopVars == <<submitted, workItems, loopPc, stopEvent, shutdown, stopPc,
              startCalls, startRaised, stepKind, lateSteps>>
vars == <<agents, normVars, dispatchVars, loopVars>>

-----------------------------------------------------------------------------
(* Bounds of the model. *)

\* longest batch handed to promise()
MaxBatch == 2
\* promise() calls per behaviour
MaxCycles == 2
\* actions handed to promise() per behaviour, all calls together
MaxActions == 3
\* start() calls per behaviour
MaxStarts == 2

-----------------------------------------------------------------------------
(* Strings.  TLC treats strings as atoms, so str.lower() is tabulated over   *)
(* the type strings the model uses; every other string of the model is       *)
(* already lower case.                                                       *)

Lower(s) ==
    CASE s = "Turn Left" -> "turn left"
      [] s = "MOVE BACK" -> "move back"
      [] s = "Move"      -> "move"
      [] s = "A"         -> "a"
      [] OTHER           -> s

\* type strings and values given to _normalize_action
TypeStrings ==
    {"stand still", "turn left", "turn right", "move forwards", "move back",
     "Turn Left", "MOVE BACK", "move", "Move", "a", "A", "b", "levitate", ""}
ValueStrings == {"", "turn left", "fast", "move"}

Act(t, v) == [type |-> t, value |-> v]

\* the five shorthand movement labels of _normalize_action, in source order
Shorthand ==
    <<"stand still", "turn left", "turn right", "move forwards", "move back">>

\* variant: the test of the value against "" is left out
IsShorthandMut(at, av) == \E i \in 1..Len(Shorthand) : Shorthand[i] = at
IsShorthand(at, av) ==
    av = "" /\ \E i \in 1..Len(Shorthand) : Shorthand[i] = at

\* _normalize_action: the if/elif chain compares the lower-cased type with
\* each shorthand label and the value with "", and rewrites in place.
NormalizeAction(action) ==
    LET at == Lower(action.type)
        av == action.value
    IN  IF IsShorthand(at, av) THEN Act("move", at) ELSE action

-----------------------------------------------------------------------------
(* Static configuration. *)

\* the configuration the dispatch and worker-loop specifications run with:
\* config.agent_actions, by llm_label
AgentActions == <<"a", "b", "move">>

\* the fixed cap of the executor's size
PoolCap == 12

Min(x, y) == IF x <= y THEN x ELSE y

\* _connector_workers / _background_workers
MaxWorkers ==
    IF Len(agents) > 0 THEN Min(PoolCap, Len(agents)) ELSE 1

Labels == {agents[i] : i \in 1..Len(agents)}


-----------------------------------------------------------------------------
(* Dispatch: configuration and inputs. *)

Modes == {"concurrent", "sequential", "dependencies"}

NoDeps == [l \in Labels |-> <<>>]

\* the dependency maps the model is run with
DepGraphs ==
    { NoDeps,
      [NoDeps EXCEPT !["b"] = <<"a">>],
      [NoDeps EXCEPT !["a"] = <<"b">>, !["b"] = <<"a">>],
      [NoDeps EXCEPT !["a"] = <<"a">>, !["b"] = <<"turn left", "c">>] }

\* the actions the decision engine hands to promise()
DispatchActions ==
    { Act("a", ""), Act("b", ""), Act("turn left", ""), Act("move", "fast"),
      Act("levitate", "") }

Batches == UNION { [1..n -> DispatchActions] : n \in 0..MaxBatch }

NoEvent == <<0, "">>

Terminal(st) == st \in {"done", "failed"}
\* the connector call has been invoked
Started(st) == st \in {"inflight", "done", "failed"}

Range(f) == { f[x] : x \in DOMAIN f }

-----------------------------------------------------------------------------
(* Dispatch: helpers. *)

\* variant: the lookup falls back to the first binding
GetAgentActionMut(action) == 1
\* _get_agent_action: index in config.agent_actions of the first binding
\* whose llm_label equals action.type.lower(); 0 stands for None.
GetAgentAction(action) ==
    LET hits == { i \in 1..Len(agents) :
                    agents[i] = Lower(action.type) }
    IN  IF hits = {} THEN 0
        ELSE CHOOSE i \in hits : \A j \in hits : i <= j

\* variant: the events of the first table are kept and used again
CompletionTableMut(b, c) ==
    [ l \in { Lower(b[i].type) : i \in 1..Len(b) } |-> <<1, l>> ]
\* promise(): the completion table rebuilt from the batch as given, before
\* any normalization; c is the identity of this build.
CompletionTable(b, c) ==
    [ l \in { Lower(b[i].type) : i \in 1..Len(b) } |-> <<c, l>> ]

\* the batch with its first n actions normalized in place
NormalizedUpTo(b, n) ==
    [ i \in 1..Len(b) |-> IF i <= n THEN NormalizeAction(b[i]) ELSE b[i] ]

\* indices of b, in order, whose normalized action has a binding
ResolvedIdx(b) ==
    SelectSeq([ i \in 1..Len(b) |-> i ],
              LAMBDA i : GetAgentAction(NormalizeAction(b[i])) # 0)

\* asyncio.create_task(...): the task exists and has not run yet
\* kind is the coroutine the task runs: "plain" for _promise_action,
\* "deps" for _promise_action_with_deps
NewTask(action, kind) ==
    [ type |-> action.type, value |-> action.value, kind |-> kind,
      st |-> "created", dep |-> 0, waitEv |-> NoEvent ]

\* the tasks created for the actions of b at the indices in idx, of cycle c
NewTasks(b, idx, c, kind) ==
    [ id \in { <<c, idx[k]>> : k \in 1..Len(idx) } |->
        NewTask(NormalizeAction(b[id[2]]), kind) ]

NewIds(idx, c) == [ k \in 1..Len(idx) |-> <<c, idx[k]>> ]

\* least index after p whose normalized action has a binding; 0 if none
SeqNext(b, p) ==
    LET rest == { j \in (p+1)..Len(b) :
                    GetAgentAction(NormalizeAction(b[j])) # 0 }
    IN  IF rest = {} THEN 0
        ELSE CHOOSE j \in rest : \A k \in rest : j <= k

RetPromise(err) == [ op |-> "promise", err |-> err, done |-> {}, pending |-> {} ]
RetFlush(done, pending) ==
    [ op |-> "flush", err |-> FALSE, done |-> done, pending |-> pending ]
RetNone == [ op |-> "none", err |-> FALSE, done |-> {}, pending |-> {} ]


\* self._action_dependencies.get(action_label, [])
DepsOf(label) == IF label \in DOMAIN deps THEN deps[label] ELSE <<>>

\* variant: no dependency is waited for
FirstUnmetMut(label, k) == 0
\* _promise_action_with_deps, the loop over dependencies from its k-th
\* element on: the first dependency that is a key of the table as it is now
\* and whose event is not set (Event.wait() on a set event does not suspend);
\* 0 when the loop runs to its end.
FirstUnmet(label, k) ==
    LET ds == DepsOf(label)
        unmet == { j \in k..Len(ds) :
                     /\ ds[j] \in DOMAIN completed
                     /\ completed[ds[j]] \notin evSet }
    IN  IF unmet = {} THEN 0
        ELSE CHOOSE j \in unmet : \A i \in unmet : j <= i

\* variant: the table is indexed without the membership test, so a
\* prerequisite that is not a key raises KeyError and ends the task
AfterDepsMut(t, k) ==
    LET ds == DepsOf(Lower(t.type))
    IN  IF \E j \in k..Len(ds) : ds[j] \notin DOMAIN completed
        THEN [t EXCEPT !.st = "failed", !.dep = 0, !.waitEv = NoEvent]
        ELSE IF FirstUnmet(Lower(t.type), k) = 0
        THEN [t EXCEPT !.st = "inflight", !.dep = 0, !.waitEv = NoEvent]
        ELSE [t EXCEPT !.st = "waiting", !.dep = FirstUnmet(Lower(t.type), k),
                       !.waitEv = completed[ds[FirstUnmet(Lower(t.type), k)]]]
\* the task after running the dependency loop from element k: suspended on
\* an event, or inside connector.connect()
AfterDeps(t, k) ==
    LET label == Lower(t.type)
        j == FirstUnmet(label, k)
    IN  IF j = 0
        THEN [t EXCEPT !.st = "inflight", !.dep = 0, !.waitEv = NoEvent]
        ELSE [t EXCEPT !.st = "waiting", !.dep = j,
                       !.waitEv = completed[DepsOf(label)[j]]]

-----------------------------------------------------------------------------
(* Dispatch: the tasks, run by the event loop. *)

\* first run of a task: _promise_action invokes connect at once,
\* _promise_action_with_deps runs its dependency loop first
TaskStart(id) ==
    /\ id \in DOMAIN tasks
    /\ tasks[id].st = "created"
    /\ tasks' = [tasks EXCEPT ![id] =
                    IF @.kind = "deps" THEN AfterDeps(@, 1)
                    ELSE [@ EXCEPT !.st = "inflight"]]
    /\ UNCHANGED <<mode, deps, completed, evSet, queue, cycle, pc, batch, pos,
                   flushSet, ret, given>>
    /\ UNCHANGED <<agents, normVars, loopVars>>

\* a task suspended in Event.wait() runs again once that event is set
TaskResume(id) ==
    /\ id \in DOMAIN tasks
    /\ tasks[id].st = "waiting"
    /\ tasks[id].waitEv \in evSet
    /\ tasks' = [tasks EXCEPT ![id] = AfterDeps(@, @.dep + 1)]
    /\ UNCHANGED <<mode, deps, completed, evSet, queue, cycle, pc, batch, pos,
                   flushSet, ret, given>>
    /\ UNCHANGED <<agents, normVars, loopVars>>

\* _promise_action_with_deps after the connector call returned: the event of
\* the action's label in the table as it is now is set
SignalOwn(t) ==
    LET label == Lower(t.type)
    IN  IF t.kind = "deps" /\ label \in DOMAIN completed
        THEN evSet \cup {completed[label]}
        ELSE evSet

\* connector.connect() returns
TaskReturn(id) ==
    /\ id \in DOMAIN tasks
    /\ tasks[id].st = "inflight"
    /\ tasks' = [tasks EXCEPT ![id].st = "done"]
    /\ evSet' = SignalOwn(tasks[id])
    /\ UNCHANGED <<mode, deps, completed, queue, cycle, pc, batch, pos,
                   flushSet, ret, given>>
    /\ UNCHANGED <<agents, normVars, loopVars>>

\* connector.connect() raises: the exception ends the task
TaskRaise(id) ==
    /\ id \in DOMAIN tasks
    /\ tasks[id].st = "inflight"
    /\ tasks' = [tasks EXCEPT ![id].st = "failed"]
    /\ UNCHANGED <<mode, deps, completed, evSet, queue, cycle, pc, batch, pos,
                   flushSet, ret, given>>
    /\ UNCHANGED <<agents, normVars, loopVars>>


-----------------------------------------------------------------------------
(* Dispatch: promise(). *)

\* variant: the tasks are created and then awaited inside promise()
PromiseConcurrentMut(b, c) ==
    LET idx == ResolvedIdx(b)
    IN  /\ batch' = NormalizedUpTo(b, Len(b))
        /\ tasks' = tasks @@ NewTasks(b, idx, c, "plain")
        /\ queue' = queue \o NewIds(idx, c)
        /\ pos' = Len(b)
        /\ pc' = IF idx = <<>> THEN "idle" ELSE "promise"
        /\ ret' = RetPromise(FALSE)
\* _promise_concurrent: one task per resolved action, none awaited
PromiseConcurrent(b, c) ==
    LET idx == ResolvedIdx(b)
    IN  /\ batch' = NormalizedUpTo(b, Len(b))
        /\ tasks' = tasks @@ NewTasks(b, idx, c, "plain")
        /\ queue' = queue \o NewIds(idx, c)
        /\ pos' = Len(b)
        /\ pc' = "idle"
        /\ ret' = RetPromise(FALSE)

\* variant: the tasks are queued last action first
PromiseWithDependenciesMut(b, c) ==
    LET idx == ResolvedIdx(b)
        ids == NewIds(idx, c)
    IN  /\ batch' = NormalizedUpTo(b, Len(b))
        /\ tasks' = tasks @@ NewTasks(b, idx, c, "deps")
        /\ queue' = queue \o [ k \in 1..Len(ids) |-> ids[Len(ids) + 1 - k] ]
        /\ pos' = Len(b)
        /\ pc' = "idle"
        /\ ret' = RetPromise(FALSE)
\* _promise_with_dependencies: one task per resolved action, none awaited;
\* each task waits for its dependencies itself
PromiseWithDependencies(b, c) ==
    LET idx == ResolvedIdx(b)
    IN  /\ batch' = NormalizedUpTo(b, Len(b))
        /\ tasks' = tasks @@ NewTasks(b, idx, c, "deps")
        /\ queue' = queue \o NewIds(idx, c)
        /\ pos' = Len(b)
        /\ pc' = "idle"
        /\ ret' = RetPromise(FALSE)

\* variant: the tasks are created without being awaited one by one
PromiseSequentialMut(b, p, c) == PromiseConcurrent(b, c)
\* _promise_sequential, the for loop from the action after index p up to
\* its next await: actions without a binding are passed over, the first one
\* with a binding gets a task, which is queued and awaited; with none left
\* the loop ends and promise() returns.
PromiseSequential(b, p, c) ==
    LET j == SeqNext(b, p)
    IN  IF j = 0
        THEN /\ batch' = NormalizedUpTo(b, Len(b))
             /\ pos' = Len(b)
             /\ pc' = "idle"
             /\ ret' = RetPromise(FALSE)
             /\ UNCHANGED <<tasks, queue>>
        ELSE /\ batch' = NormalizedUpTo(b, j)
             /\ pos' = j
             /\ pc' = "promise"
             /\ tasks' = tasks @@ (<<c, j>> :> NewTask(NormalizeAction(b[j]), "plain"))
             /\ queue' = Append(queue, <<c, j>>)
             /\ UNCHANGED ret

\* promise(actions): rebuilds the completion table, then dispatches by mode
Promise(b) ==
    /\ pc = "idle"
    /\ cycle < MaxCycles
    /\ given + Len(b) <= MaxActions
    /\ cycle' = cycle + 1
    /\ completed' = CompletionTable(b, cycle + 1)
    /\ IF mode = "sequential" THEN PromiseSequential(b, 0, cycle + 1)
       ELSE IF mode = "dependencies" THEN PromiseWithDependencies(b, cycle + 1)
       ELSE PromiseConcurrent(b, cycle + 1)
    /\ given' = given + Len(b)
    /\ UNCHANGED <<mode, deps, evSet, flushSet>>
    /\ UNCHANGED <<agents, normVars, loopVars>>

\* _promise_sequential resumed from "await action_response": the exception of
\* a failed task is raised out of promise(); otherwise the event of the
\* action's label is set and the loop goes on.
SeqResume ==
    /\ pc = "promise"
    /\ <<cycle, pos>> \in DOMAIN tasks
    /\ Terminal(tasks[<<cycle, pos>>].st)
    /\ IF tasks[<<cycle, pos>>].st = "failed"
       THEN /\ pc' = "idle"
            /\ ret' = RetPromise(TRUE)
            /\ UNCHANGED <<evSet, tasks, queue, batch, pos>>
       ELSE /\ LET label == Lower(batch[pos].type)
               IN  evSet' = IF label \in DOMAIN completed
                            THEN evSet \cup {completed[label]}
                            ELSE evSet
            /\ PromiseSequential(batch, pos, cycle)
    /\ UNCHANGED <<mode, deps, completed, cycle, flushSet, given>>
    /\ UNCHANGED <<agents, normVars, loopVars>>

-----------------------------------------------------------------------------
(* Dispatch: flush_promises(). *)

\* variant: without the empty-queue test asyncio.wait is given an empty
\* set and raises
FlushEmptyMut ==
    /\ pc = "idle"
    /\ queue = <<>>
    /\ ret' = [RetFlush({}, {}) EXCEPT !.err = TRUE]
    /\ UNCHANGED <<mode, deps, completed, evSet, queue, tasks, cycle, pc,
                   batch, pos, flushSet, given>>
    /\ UNCHANGED <<agents, normVars, loopVars>>
\* flush_promises() with an empty queue: returns [], [] at once
FlushEmpty ==
    /\ pc = "idle"
    /\ queue = <<>>
    /\ ret' = RetFlush({}, {})
    /\ UNCHANGED <<mode, deps, completed, evSet, queue, tasks, cycle, pc,
                   batch, pos, flushSet, given>>
    /\ UNCHANGED <<agents, normVars, loopVars>>

\* flush_promises() with tasks queued: suspends in asyncio.wait on them
FlushBegin ==
    /\ pc = "idle"
    /\ queue # <<>>
    /\ pc' = "flush"
    /\ flushSet' = Range(queue)
    /\ UNCHANGED <<mode, deps, completed, evSet, queue, tasks, cycle, batch,
                   pos, ret, given>>
    /\ UNCHANGED <<agents, normVars, loopVars>>

\* variant: asyncio.wait returns at the first completed task
WaitOverMut(waited) == \E id \in waited : Terminal(tasks[id].st)
\* asyncio.wait(..., ALL_COMPLETED) is over
WaitOver(waited) == \A id \in waited : Terminal(tasks[id].st)

\* flush_promises() resumed: the queue is cleared, done and pending returned;
\* the tasks handed back are no longer referenced by the orchestrator
FlushEnd ==
    /\ pc = "flush"
    /\ WaitOver(flushSet)
    /\ LET done == { id \in flushSet : Terminal(tasks[id].st) }
       IN  ret' = RetFlush(done, flushSet \ done)
    /\ queue' = <<>>
    /\ tasks' = [ id \in DOMAIN tasks \ flushSet |-> tasks[id] ]
    /\ flushSet' = {}
    /\ pc' = "idle"
    /\ UNCHANGED <<mode, deps, completed, evSet, cycle, batch, pos, given>>
    /\ UNCHANGED <<agents, normVars, loopVars>>

-----------------------------------------------------------------------------
(* Initial values of each group of variables. *)

NoTasks == [ id \in {} |-> id ]

InitNormIdle ==
    /\ normIn = Act("", "")
    /\ normOut = Act("", "")
    /\ normCalls = 0

InitDispatchIdle ==
    /\ mode = "concurrent"
    /\ deps = NoDeps
    /\ completed = NoTasks
    /\ evSet = {}
    /\ queue = <<>>
    /\ tasks = NoTasks
    /\ cycle = 0
    /\ pc = "idle"
    /\ batch = <<>>
    /\ pos = 0
    /\ flushSet = {}
    /\ ret = RetNone
    /\ given = 0

InitLoopIdle ==
    /\ submitted = {}
    /\ workItems = <<>>
    /\ loopPc = <<>>
    /\ stopEvent = FALSE
    /\ shutdown = FALSE
    /\ stopPc = "none"
    /\ startCalls = 0
    /\ startRaised = FALSE
    /\ stepKind = [ i \in 1..Len(agents) |-> "any" ]
    /\ lateSteps = <<>>

-----------------------------------------------------------------------------
(* SpecDispatch: one caller issuing promise() and flush_promises(), and the  *)
(* event loop running the tasks.                                             *)

InitDispatchIn(ms) ==
    /\ agents = AgentActions
    /\ InitNormIdle
    /\ InitLoopIdle
    /\ mode \in ms
    /\ deps \in IF mode = "dependencies" THEN DepGraphs ELSE {NoDeps}
    /\ completed = NoTasks
    /\ evSet = {}
    /\ queue = <<>>
    /\ tasks = NoTasks
    /\ cycle = 0
    /\ pc = "idle"
    /\ batch = <<>>
    /\ pos = 0
    /\ flushSet = {}
    /\ ret = RetNone
    /\ given = 0

TaskIds == (1..MaxCycles) \X (1..MaxBatch)

InitDispatch == InitDispatchIn(Modes)

NextDispatch ==
    \/ \E b \in Batches : Promise(b)
    \/ SeqResume
    \/ FlushEmpty
    \/ FlushBegin
    \/ FlushEnd
    \/ \E id \in TaskIds : TaskStart(id)
    \/ \E id \in TaskIds : TaskResume(id)
    \/ \E id \in TaskIds : TaskReturn(id)
    \/ \E id \in TaskIds : TaskRaise(id)

\* every configuration
SpecDispatch == InitDispatch /\ [][NextDispatch]_vars

(* The same program in one execution mode; each next-state relation lists    *)
(* the steps that mode can take.                                             *)

InitSequential == InitDispatchIn({"sequential"})

NextSequential ==
    \/ \E b \in Batches : Promise(b)
    \/ SeqResume
    \/ FlushEmpty
    \/ FlushBegin
    \/ FlushEnd
    \/ \E id \in TaskIds : TaskStart(id)
    \/ \E id \in TaskIds : TaskReturn(id)
    \/ \E id \in TaskIds : TaskRaise(id)

SpecSequential == InitSequential /\ [][NextSequential]_vars

InitConcurrent == InitDispatchIn({"concurrent"})

NextConcurrent ==
    \/ \E b \in Batches : Promise(b)
    \/ FlushEmpty
    \/ FlushBegin
    \/ FlushEnd
    \/ \E id \in TaskIds : TaskStart(id)
    \/ \E id \in TaskIds : TaskReturn(id)
    \/ \E id \in TaskIds : TaskRaise(id)

SpecConcurrent == InitConcurrent /\ [][NextConcurrent]_vars

InitDependencies == InitDispatchIn({"dependencies"})

NextDependencies ==
    \/ \E b \in Batches : Promise(b)
    \/ FlushEmpty
    \/ FlushBegin
    \/ FlushEnd
    \/ \E id \in TaskIds : TaskStart(id)
    \/ \E id \in TaskIds : TaskResume(id)
    \/ \E id \in TaskIds : TaskReturn(id)
    \/ \E id \in TaskIds : TaskRaise(id)

SpecDependencies == InitDependencies /\ [][NextDependencies]_vars

(* Dependencies mode with one promise() call, followed by flush_promises(), *)
(* and the scheduling the runtime provides: the event loop runs every task   *)
(* that is ready, a connector call that was invoked returns or raises, and   *)
(* the caller is resumed when asyncio.wait is over.  Nothing obliges the     *)
(* caller to call promise() or flush_promises().                             *)

\* the first promise() call of the orchestrator
PromiseOnce(b) ==
    /\ cycle = 0
    /\ Promise(b)

NextOneCycle ==
    \/ \E b \in Batches : PromiseOnce(b)
    \/ FlushEmpty
    \/ FlushBegin
    \/ FlushEnd
    \/ \E id \in TaskIds : TaskStart(id)
    \/ \E id \in TaskIds : TaskResume(id)
    \/ \E id \in TaskIds : TaskReturn(id)
    \/ \E id \in TaskIds : TaskRaise(id)

SpecOneCycle == InitDependencies /\ [][NextOneCycle]_vars

SpecOneCycleFair ==
    /\ SpecOneCycle
    /\ \A id \in TaskIds : WF_vars(TaskStart(id))
    /\ \A id \in TaskIds : WF_vars(TaskResume(id))
    /\ \A id \in TaskIds : WF_vars(TaskReturn(id) \/ TaskRaise(id))
    /\ WF_vars(FlushEnd)

-----------------------------------------------------------------------------
(* SpecNorm: _normalize_action applied once and again to every action of a   *)
(* bounded set.                                                              *)

InitNorm ==
    /\ agents = AgentActions
    /\ InitDispatchIdle
    /\ InitLoopIdle
    /\ normIn \in { Act(t, v) : t \in TypeStrings, v \in ValueStrings }
    /\ normOut = normIn
    /\ normCalls = 0

\* one more call of _normalize_action on the action object
NormalizeStep ==
    /\ normCalls < 2
    /\ normOut' = NormalizeAction(normOut)
    /\ normCalls' = normCalls + 1
    /\ UNCHANGED normIn
    /\ UNCHANGED <<agents, dispatchVars, loopVars>>

NextNorm ==
    NormalizeStep

SpecNorm == InitNorm /\ [][NextNorm]_vars

-----------------------------------------------------------------------------
(* Worker loops.  ActionOrchestrator (start, _run_connector_loop, stop) and  *)
(* BackgroundOrchestrator (start, _run_background_loop, stop) are the same   *)
(* code over agent_actions/llm_label/tick and backgrounds/name/run; the      *)
(* model is written once, over agents.                                       *)

\* what a collaborator's step operation (tick / run) does when invoked:
\* "any" returns or raises, invocation by invocation; "raise" raises every
\* time; "hang" never returns
StepKinds == {"any", "raise", "hang"}

Running(p) == p \in {"top", "checked", "step", "sleep"}

\* variant: the submitted set is not consulted
ToSubmitMut == [ i \in 1..Len(agents) |-> i ]
\* start(), the for loop: the collaborators, in configuration order, whose
\* identity is not in the submitted set when the loop reaches them
ToSubmit ==
    SelectSeq([ i \in 1..Len(agents) |-> i ],
              LAMBDA i : /\ agents[i] \notin submitted
                         /\ \A j \in 1..(i-1) : agents[j] # agents[i])

\* start(): ThreadPoolExecutor.submit raises RuntimeError once the executor
\* is shut down, before the identity is added to the submitted set
Start ==
    /\ startCalls < MaxStarts
    /\ stopPc # "joining"
    /\ startCalls' = startCalls + 1
    /\ IF ToSubmit = <<>>
       THEN /\ startRaised' = FALSE
            /\ UNCHANGED <<submitted, workItems, loopPc, lateSteps>>
       ELSE IF shutdown
       THEN /\ startRaised' = TRUE
            /\ UNCHANGED <<submitted, workItems, loopPc, lateSteps>>
       ELSE /\ startRaised' = FALSE
            /\ workItems' = workItems \o ToSubmit
            /\ loopPc' = loopPc \o [ k \in 1..Len(ToSubmit) |-> "queued" ]
            /\ lateSteps' = lateSteps \o [ k \in 1..Len(ToSubmit) |-> 0 ]
            /\ submitted' = submitted \cup
                              { agents[ToSubmit[k]] : k \in 1..Len(ToSubmit) }
    /\ UNCHANGED <<stopEvent, shutdown, stopPc, stepKind>>
    /\ UNCHANGED <<agents, normVars, dispatchVars>>

\* a pool thread takes the oldest queued work item; the pool never has more
\* than MaxWorkers threads, each busy with one item until its loop returns
PickUp(w) ==
    /\ w \in 1..Len(loopPc)
    /\ loopPc[w] = "queued"
    /\ \A v \in 1..(w-1) : loopPc[v] # "queued"
    /\ Cardinality({ v \in 1..Len(loopPc) : Running(loopPc[v]) }) < MaxWorkers
    /\ loopPc' = [loopPc EXCEPT ![w] = "top"]
    /\ UNCHANGED <<submitted, workItems, stopEvent, shutdown, stopPc,
                   startCalls, startRaised, stepKind, lateSteps>>
    /\ UNCHANGED <<agents, normVars, dispatchVars>>

\* "while not self._stop_event.is_set()": the test at the top of the loop
LoopCheck(w) ==
    /\ w \in 1..Len(loopPc)
    /\ loopPc[w] = "top"
    /\ loopPc' = [loopPc EXCEPT ![w] = IF stopEvent THEN "exited" ELSE "checked"]
    /\ UNCHANGED <<submitted, workItems, stopEvent, shutdown, stopPc,
                   startCalls, startRaised, stepKind, lateSteps>>
    /\ UNCHANGED <<agents, normVars, dispatchVars>>

\* the step operation is invoked
LoopInvoke(w) ==
    /\ w \in 1..Len(loopPc)
    /\ loopPc[w] = "checked"
    /\ loopPc' = [loopPc EXCEPT ![w] = "step"]
    /\ lateSteps' = [lateSteps EXCEPT ![w] = IF stopEvent THEN Min(@ + 1, 2) ELSE @]
    /\ UNCHANGED <<submitted, workItems, stopEvent, shutdown, stopPc,
                   startCalls, startRaised, stepKind>>
    /\ UNCHANGED <<agents, normVars, dispatchVars>>

\* the step operation returns: back to the top of the loop
StepReturn(w) ==
    /\ w \in 1..Len(loopPc)
    /\ loopPc[w] = "step"
    /\ stepKind[workItems[w]] = "any"
    /\ loopPc' = [loopPc EXCEPT ![w] = "top"]
    /\ UNCHANGED <<submitted, workItems, stopEvent, shutdown, stopPc,
                   startCalls, startRaised, stepKind, lateSteps>>
    /\ UNCHANGED <<agents, normVars, dispatchVars>>

\* variant: an exception ends the loop
AfterRaiseMut == "exited"
\* where the loop goes when the step operation raised: the except clause
\* logs and sleeps, nothing leaves the loop
AfterRaise == "sleep"

\* variant: the exception is not caught and takes the sibling loops down
StepRaiseMut(w) ==
    /\ w \in 1..Len(loopPc)
    /\ loopPc[w] = "step"
    /\ stepKind[workItems[w]] \in {"any", "raise"}
    /\ loopPc' = [ v \in 1..Len(loopPc) |->
                     IF Running(loopPc[v]) THEN "exited" ELSE loopPc[v] ]
    /\ UNCHANGED <<submitted, workItems, stopEvent, shutdown, stopPc,
                   startCalls, startRaised, stepKind, lateSteps>>
    /\ UNCHANGED <<agents, normVars, dispatchVars>>
\* the step operation raises
StepRaise(w) ==
    /\ w \in 1..Len(loopPc)
    /\ loopPc[w] = "step"
    /\ stepKind[workItems[w]] \in {"any", "raise"}
    /\ loopPc' = [loopPc EXCEPT ![w] = AfterRaise]
    /\ UNCHANGED <<submitted, workItems, stopEvent, shutdown, stopPc,
                   startCalls, startRaised, stepKind, lateSteps>>
    /\ UNCHANGED <<agents, normVars, dispatchVars>>

\* time.sleep(0.1) is over: back to the top of the loop
SleepDone(w) ==
    /\ w \in 1..Len(loopPc)
    /\ loopPc[w] = "sleep"
    /\ loopPc' = [loopPc EXCEPT ![w] = "top"]
    /\ UNCHANGED <<submitted, workItems, stopEvent, shutdown, stopPc,
                   startCalls, startRaised, stepKind, lateSteps>>
    /\ UNCHANGED <<agents, normVars, dispatchVars>>

\* variant: stop() ends the loops where they stand
StopCallMut ==
    /\ stopPc = "none"
    /\ stopEvent' = TRUE
    /\ shutdown' = TRUE
    /\ stopPc' = "joining"
    /\ loopPc' = [ w \in 1..Len(loopPc) |-> "exited" ]
    /\ UNCHANGED <<submitted, workItems, startCalls, startRaised,
                   stepKind, lateSteps>>
    /\ UNCHANGED <<agents, normVars, dispatchVars>>
\* stop(): sets the stop event, then executor.shutdown(wait=True) begins
StopCall ==
    /\ stopPc = "none"
    /\ stopEvent' = TRUE
    /\ shutdown' = TRUE
    /\ stopPc' = "joining"
    /\ UNCHANGED <<submitted, workItems, loopPc, startCalls, startRaised,
                   stepKind, lateSteps>>
    /\ UNCHANGED <<agents, normVars, dispatchVars>>

\* variant: shutdown(wait=False), stop() does not wait for the loops
StopReturnMut ==
    /\ stopPc = "joining"
    /\ stopPc' = "returned"
    /\ UNCHANGED <<submitted, workItems, loopPc, stopEvent, shutdown,
                   startCalls, startRaised, stepKind, lateSteps>>
    /\ UNCHANGED <<agents, normVars, dispatchVars>>
\* shutdown(wait=True) returns when every work item has run to its end and
\* the threads are joined
StopReturn ==
    /\ stopPc = "joining"
    /\ \A w \in 1..Len(loopPc) : loopPc[w] = "exited"
    /\ stopPc' = "returned"
    /\ UNCHANGED <<submitted, workItems, loopPc, stopEvent, shutdown,
                   startCalls, startRaised, stepKind, lateSteps>>
    /\ UNCHANGED <<agents, normVars, dispatchVars>>

InitLoop ==
    /\ agents = AgentActions
    /\ InitNormIdle
    /\ InitDispatchIdle
    /\ submitted = {}
    /\ workItems = <<>>
    /\ loopPc = <<>>
    /\ stopEvent = FALSE
    /\ shutdown = FALSE
    /\ stopPc = "none"
    /\ startCalls = 0
    /\ startRaised = FALSE
    /\ stepKind \in [ 1..Len(agents) -> StepKinds ]
    /\ lateSteps = <<>>

\* the work items: at most one per configured collaborator
ItemSlots == 1..Len(AgentActions)

\* one step of the thread that runs work item w
LoopThread(w) ==
    \/ PickUp(w)
    \/ LoopCheck(w)
    \/ LoopInvoke(w)
    \/ StepReturn(w)
    \/ StepRaise(w)
    \/ SleepDone(w)

NextLoop ==
    \/ Start
    \/ StopCall
    \/ StopReturn
    \/ \E w \in ItemSlots : PickUp(w)
    \/ \E w \in ItemSlots : LoopCheck(w)
    \/ \E w \in ItemSlots : LoopInvoke(w)
    \/ \E w \in ItemSlots : StepReturn(w)
    \/ \E w \in ItemSlots : StepRaise(w)
    \/ \E w \in ItemSlots : SleepDone(w)

SpecLoop == InitLoop /\ [][NextLoop]_vars

\* the operating system schedules every thread that can run, a step
\* operation that returns or raises does so, and the sleep ends
SpecLoopFair ==
    /\ SpecLoop
    /\ \A w \in ItemSlots : WF_vars(LoopThread(w))
    /\ WF_vars(StopReturn)

(* The pool with one collaborator more than its fixed cap, from start() up  *)
(* to the first invocation of each step operation, while nobody calls        *)
(* stop(): every step operation is taken as still running (kind "hang").     *)

\* a configuration with one collaborator more than the cap of the pool
ManyActions ==
    <<"c01", "c02", "c03", "c04", "c05", "c06", "c07", "c08", "c09", "c10",
      "c11", "c12", "c13">>

InitPool ==
    /\ agents = ManyActions
    /\ InitNormIdle
    /\ InitDispatchIdle
    /\ submitted = {}
    /\ workItems = <<>>
    /\ loopPc = <<>>
    /\ stopEvent = FALSE
    /\ shutdown = FALSE
    /\ stopPc = "none"
    /\ startCalls = 0
    /\ startRaised = FALSE
    /\ stepKind = [ i \in 1..Len(agents) |-> "hang" ]
    /\ lateSteps = <<>>

\* the first start() call of the orchestrator
StartOnce ==
    /\ startCalls = 0
    /\ Start

PoolSlots == 1..Len(ManyActions)

NextPool ==
    \/ StartOnce
    \/ \E w \in PoolSlots : PickUp(w)
    \/ \E w \in PoolSlots : LoopCheck(w)
    \/ \E w \in PoolSlots : LoopInvoke(w)

SpecPool == InitPool /\ [][NextPool]_vars

-----------------------------------------------------------------------------
(* Claims. *)

TasksIn(st) == { id \in DOMAIN tasks : tasks[id].st = st }

\* C1: in sequential mode at most one connector call is in flight, and a
\* task's connector call has started only if every task queued before it has
\* reached a terminal state.
C1_SequentialOrder ==
    /\ Cardinality(TasksIn("inflight")) <= 1
    /\ \A i, j \in 1..Len(queue) :
          (i < j /\ Started(tasks[queue[j]].st)) => Terminal(tasks[queue[i]].st)

\* two actions of one batch: the first has ended, the second's call is in flight
C1_Witness ==
    /\ mode = "sequential"
    /\ pc = "promise"
    /\ \E i, j \in 1..MaxBatch :
          /\ i < j
          /\ <<cycle, i>> \in DOMAIN tasks /\ <<cycle, j>> \in DOMAIN tasks
          /\ tasks[<<cycle, i>>].st = "done"
          /\ tasks[<<cycle, j>>].st = "inflight"

\* C2: in dependencies mode, a task of the current promise() cycle whose
\* connector call has started has every configured prerequisite that is a key
\* of the cycle's completion table signaled.
C2_DepsGate ==
    \A id \in DOMAIN tasks :
        (id[1] = cycle /\ Started(tasks[id].st)) =>
            LET ds == deps[Lower(tasks[id].type)]
            IN  \A k \in 1..Len(ds) :
                    ds[k] \in DOMAIN completed => completed[ds[k]] \in evSet

\* "b" depends on "a", both in the batch: b's call is in flight, a's gate set
C2_Witness ==
    /\ mode = "dependencies"
    /\ \E id \in DOMAIN tasks :
          /\ id[1] = cycle
          /\ tasks[id].st = "inflight"
          /\ \E k \in 1..Len(deps[Lower(tasks[id].type)]) :
                LET d == deps[Lower(tasks[id].type)][k]
                IN  /\ d \in DOMAIN completed
                    /\ completed[d] \in evSet
                    /\ d # Lower(tasks[id].type)

\* the five shorthand movement labels, as the specification lists them
ShorthandLabels ==
    {"stand still", "turn left", "turn right", "move forwards", "move back"}

\* C8: normalization is total and idempotent: after one call and after two,
\* a shorthand label (any letter case) with an empty value has become type
\* "move" with the lower-case label as value, and every other action is
\* unchanged; a further call is always possible.
C8_NormalizeIdempotent ==
    /\ normCalls < 2 => ENABLED NormalizeStep
    /\ normCalls >= 1 =>
          IF Lower(normIn.type) \in ShorthandLabels /\ normIn.value = ""
          THEN normOut = [type |-> "move", value |-> Lower(normIn.type)]
          ELSE normOut = normIn

\* a shorthand label in mixed case, normalized twice
C8_Witness ==
    /\ normCalls = 2
    /\ normIn = [type |-> "Turn Left", value |-> ""]
    /\ normOut = [type |-> "move", value |-> "turn left"]


\* the batch indices whose action, as normalized, names a registered binding
Bound(b, upto) == { i \in 1..upto : Lower(b[i].type) \in Labels }

\* C3: in concurrent mode promise() returns without awaiting: the step that
\* makes the call appends, in batch order, one not yet started task per
\* resolved action to the queue and leaves the caller running; no task ever
\* waits on a gate and the caller is never suspended inside promise().
C3_ConcurrentNoAwait ==
    /\ [][ cycle' # cycle =>
             LET old == Len(queue)
                 new == SubSeq(queue', old + 1, Len(queue'))
             IN  /\ pc' = "idle"
                 /\ ret' = RetPromise(FALSE)
                 /\ SubSeq(queue', 1, old) = queue
                 /\ { new[k][2] : k \in 1..Len(new) } = Bound(batch', Len(batch'))
                 /\ \A k \in 1..Len(new) :
                       /\ new[k][1] = cycle'
                       /\ tasks'[new[k]].st = "created"
                       /\ \A l \in 1..Len(new) : k < l => new[k][2] < new[l][2]
                 /\ \A id \in DOMAIN tasks : tasks'[id] = tasks[id] ]_vars
    /\ [](pc # "promise" /\ TasksIn("waiting") = {})

\* promise() has returned and the connector calls of both actions of a
\* two-action batch are in flight together
C3_Witness ==
    /\ mode = "concurrent"
    /\ pc = "idle"
    /\ Len(batch) >= 2
    /\ Bound(batch, Len(batch)) = 1..Len(batch)
    /\ \A i \in 1..Len(batch) :
          <<cycle, i>> \in DOMAIN tasks /\ tasks[<<cycle, i>>].st = "inflight"

\* C4: flush_promises() on a non-empty queue returns only when every queued
\* task is terminal; it returns exactly the queued tasks as done, nothing as
\* pending, and leaves the queue empty.
C4_FlushWaitsAll ==
    /\ [][ pc = "flush" /\ pc' = "idle" =>
             /\ \A id \in Range(queue) : Terminal(tasks[id].st)
             /\ ret' = RetFlush(Range(queue), {})
             /\ queue' = <<>> ]_vars
    /\ [](pc = "flush" => queue # <<>> /\ flushSet = Range(queue))

\* a flush that waited for two tasks and returned both
C4_Witness ==
    /\ pc = "idle"
    /\ ret.op = "flush"
    /\ Cardinality(ret.done) >= 2
    /\ ret.pending = {}
    /\ queue = <<>>

\* C5: flush_promises() on an empty queue (the only step of an idle caller
\* with an empty queue that is not a promise() call) returns two empty
\* collections without suspending or failing and changes neither the queue
\* nor the completion table; the state it leaves allows the same call again.
C5_FlushEmptyIdempotent ==
    [][ pc = "idle" /\ queue = <<>> /\ cycle' = cycle =>
          /\ ret' = RetFlush({}, {})
          /\ pc' = "idle"
          /\ queue' = <<>>
          /\ completed' = completed
          /\ evSet' = evSet ]_vars

\* flush on an empty queue has returned and the completion table of the last
\* promise() is still in place
C5_Witness ==
    /\ ret = RetFlush({}, {})
    /\ pc = "idle"
    /\ queue = <<>>
    /\ DOMAIN completed # {}

\* C6: an action whose normalized, lower-cased type names no binding gets no
\* task and stops nothing: no task carries an unregistered label; while
\* promise() runs and after it ended the tasks of the cycle are exactly the
\* bound actions among those the loop has passed; the loop ends before the
\* end of the batch only on a failed task, never on a skipped action.
C6_UnknownSkipped ==
    /\ \A id \in DOMAIN tasks : Lower(tasks[id].type) \in Labels
    /\ (pc = "promise" \/ (pc = "idle" /\ ret.op = "promise")) =>
          /\ { id[2] : id \in { x \in Range(queue) : x[1] = cycle } }
                = Bound(batch, pos)
          /\ (pc = "idle" /\ ~ret.err) => pos = Len(batch)
          /\ (pc = "idle" /\ ret.err) =>
                /\ <<cycle, pos>> \in DOMAIN tasks
                /\ tasks[<<cycle, pos>>].st = "failed"

\* promise() has returned: the first action had no binding, the second one
\* after it has its task
C6_Witness ==
    /\ pc = "idle"
    /\ ret = RetPromise(FALSE)
    /\ Len(batch) = 2
    /\ Lower(batch[1].type) \notin Labels
    /\ <<cycle, 1>> \notin DOMAIN tasks
    /\ <<cycle, 2>> \in DOMAIN tasks

\* C7 (as claimed): when promise() has ended it has not failed, and every
\* action of the batch that names a binding has its task, whatever the
\* connector calls of the other actions did.
C7_FailureIsolated ==
    (pc = "idle" /\ ret.op = "promise") =>
        /\ ~ret.err
        /\ \A i \in 1..Len(batch) :
              Lower(NormalizeAction(batch[i]).type) \in Labels =>
                  <<cycle, i>> \in Range(queue)


\* identity of the collaborator whose loop is work item w
ItemLabel(w) == agents[workItems[w]]

\* C9: start() is idempotent: no two submitted worker loops have the same
\* collaborator identity, the submitted set holds exactly the identities of
\* the submitted loops, and once a start() call has gone through every
\* collaborator has its one loop, however many calls were made.
C9_StartIdempotent ==
    /\ Len(loopPc) = Len(workItems)
    /\ Len(workItems) <= Len(agents)
    /\ \A v, w \in 1..Len(workItems) : v # w => ItemLabel(v) # ItemLabel(w)
    /\ submitted = { ItemLabel(w) : w \in 1..Len(workItems) }
    /\ (startCalls >= 1 /\ ~startRaised) =>
          /\ submitted = Labels
          /\ Len(workItems) = Cardinality(Labels)

\* start() called twice: still one loop per collaborator
C9_Witness ==
    /\ startCalls = 2
    /\ ~startRaised
    /\ submitted = Labels
    /\ Len(workItems) = Cardinality(Labels)

\* position of the loop of work item w; "none" while there is no such item
ItemPc(w) == IF w \in 1..Len(loopPc) THEN loopPc[w] ELSE "none"

\* work item w exists and its step operation raises on every invocation
AlwaysRaises(w) ==
    /\ w \in 1..Len(workItems)
    /\ stepKind[workItems[w]] = "raise"

\* C10: a worker loop whose step raises on every invocation leaves the loop
\* only with the stop signal set; while the signal is unset it invokes the
\* step again and again; once the signal is set it exits, having begun at
\* most one more step invocation.
C10_RetryUntilStop ==
    /\ [][ \A w \in 1..Len(loopPc) :
             (AlwaysRaises(w) /\ loopPc[w] # "exited" /\ loopPc'[w] = "exited")
                 => stopEvent ]_vars
    /\ \A w \in ItemSlots :
          []<>(~AlwaysRaises(w) \/ stopEvent \/ ItemPc(w) = "step")
    /\ \A w \in ItemSlots :
          (AlwaysRaises(w) /\ stopEvent) ~> (ItemPc(w) = "exited")
    /\ [](\A w \in 1..Len(lateSteps) : AlwaysRaises(w) => lateSteps[w] <= 1)

\* stop() has returned; an always-raising loop had passed the test at the
\* top when the signal was set, ran that one iteration and exited
C10_Witness ==
    /\ stopPc = "returned"
    /\ \E w \in 1..Len(workItems) :
          /\ AlwaysRaises(w)
          /\ loopPc[w] = "exited"
          /\ lateSteps[w] = 1


\* the step invocation of work item w is one that never returns
Hung(w) ==
    /\ w \in 1..Len(loopPc)
    /\ loopPc[w] = "step"
    /\ stepKind[workItems[w]] = "hang"

\* C11: stop() sets the stop signal before it waits; it returns only from a
\* state in which every submitted worker loop has exited; once called it
\* returns eventually unless some step invocation never returns; and from
\* the moment a step invocation that never returns is in progress, stop()
\* has not returned and never will.
C11_StopJoins ==
    /\ [][ stopPc = "none" /\ stopPc' # "none" => stopEvent' ]_vars
    /\ [][ stopPc # "returned" /\ stopPc' = "returned" =>
             \A w \in 1..Len(loopPc) : loopPc[w] = "exited" ]_vars
    /\ [](stopPc = "returned" =>
             stopEvent /\ \A w \in 1..Len(loopPc) : loopPc[w] = "exited")
    /\ (stopPc = "joining") ~>
          (stopPc = "returned" \/ \E w \in ItemSlots : Hung(w))
    /\ []((\E w \in ItemSlots : Hung(w)) => [](stopPc # "returned"))

\* stop() has returned after waiting for the loops of all collaborators, one
\* of which was inside an iteration when the signal was set
C11_Witness ==
    /\ stopPc = "returned"
    /\ Len(loopPc) = Len(agents)
    /\ \A w \in 1..Len(loopPc) : loopPc[w] = "exited"
    /\ \E w \in 1..Len(loopPc) :
          stepKind[workItems[w]] = "any" /\ lateSteps[w] = 1

\* C12: a step operation that raises touches no loop but its own: the step
\* in which the exception is handled leaves every sibling loop where it was;
\* no loop of any collaborator ends while the stop signal is unset; and
\* whenever a loop is handling an exception, each sibling loop invokes its
\* own step operation again (or is inside it) unless the stop signal is set.
C12_LoopIsolation ==
    /\ [][ \A w \in 1..Len(loopPc) :
             (loopPc[w] = "step" /\ loopPc'[w] # "step") =>
                 /\ Len(loopPc') = Len(loopPc)
                 /\ \A v \in 1..Len(loopPc) : v # w => loopPc'[v] = loopPc[v] ]_vars
    /\ [][ \A w \in 1..Len(loopPc) :
             (loopPc[w] # "exited" /\ loopPc'[w] = "exited") => stopEvent ]_vars
    /\ \A v, w \in ItemSlots :
          (v # w /\ ItemPc(v) = "sleep") ~> (stopEvent \/ ItemPc(w) = "step")

\* one collaborator raises on every invocation and is sleeping after an
\* exception; the loops of the two others are inside their step operations
C12_Witness ==
    /\ ~stopEvent
    /\ Len(loopPc) = 3
    /\ \E w \in 1..3 :
          /\ AlwaysRaises(w)
          /\ loopPc[w] = "sleep"
          /\ \A v \in 1..3 : v # w =>
                 loopPc[v] = "step" /\ stepKind[workItems[v]] = "any"

RECURSIVE Prune(_, _)
\* the label set S after n rounds of removing the labels that have no
\* configured prerequisite in the set
Prune(S, n) ==
    IF n = 0 THEN S
    ELSE Prune({ l \in S : \E k \in 1..Len(DepsOf(l)) : DepsOf(l)[k] \in S },
               n - 1)

\* the labels of the current batch that are on a cycle of the dependency
\* graph restricted to the batch, or depend on such a label through
\* prerequisites of the batch
Deadlocked == Prune(DOMAIN completed, Cardinality(DOMAIN completed))

\* C13 (as claimed): in dependencies mode promise() never suspends and, when
\* it has returned, has queued a task for every resolved action of the
\* batch; and a task of the batch whose label is on a dependency cycle among
\* the labels of the batch, or depends on one, has not invoked its connector.
C13_CycleDeadlock ==
    mode = "dependencies" =>
        /\ pc # "promise"
        /\ (pc = "idle" /\ ret.op = "promise") =>
              /\ ~ret.err
              /\ { id[2] : id \in { x \in Range(queue) : x[1] = cycle } }
                    = Bound(batch, Len(batch))
        /\ \A id \in DOMAIN tasks :
              (id[1] = cycle /\ Lower(tasks[id].type) \in Deadlocked) =>
                  ~Started(tasks[id].st)

\* the key under which the batch action of task t was entered in the
\* completion table: its type as given, in lower case.  The task record
\* holds the action as normalized; no action of DispatchActions has type
\* "move" with a shorthand label as value, so such a task was a shorthand.
TableKey(t) ==
    IF t.type = "move" /\ t.value \in ShorthandLabels
    THEN t.value ELSE Lower(t.type)

\* C14 (as claimed): no gate is ever reset; the step in which the connector
\* call of a task of the current cycle returns sets no gate but the one of
\* the label that task's batch action owns; and when the sequential loop
\* sets a gate, it is the gate owned by the action it has just awaited, whose
\* call has returned.
C14_GateSingleWriter ==
    /\ [][ evSet \subseteq evSet' ]_vars
    /\ [][ \A id \in DOMAIN tasks :
             (id[1] = cycle /\ tasks[id].st = "inflight" /\ id \in DOMAIN tasks'
                /\ tasks'[id].st = "done")
                 => (evSet' \ evSet) \subseteq { <<cycle, TableKey(tasks[id])>> } ]_vars
    /\ [][ (pc = "promise" /\ evSet' # evSet) =>
             /\ tasks[<<cycle, pos>>].st = "done"
             /\ (evSet' \ evSet)
                   \subseteq { <<cycle, TableKey(tasks[<<cycle, pos>>])>> } ]_vars

\* C15: in dependencies mode, whenever a task runs its dependency loop
\* (first run, or resumed from a wait) it ends up inside its connector call
\* or suspended on a gate, never failed; it is suspended only on the gate of
\* a configured prerequisite that is a key of the completion table; and if
\* none of its configured prerequisites is a key of the table it is inside
\* its connector call at once.
C15_AbsentPrereqSatisfied ==
    [][ \A id \in DOMAIN tasks :
          (/\ mode = "dependencies"
           /\ tasks[id].st \in {"created", "waiting"}
           /\ id \in DOMAIN tasks'
           /\ tasks'[id] # tasks[id]) =>
              LET ds == DepsOf(Lower(tasks[id].type))
                  u == tasks'[id]
              IN  /\ u.st \in {"inflight", "waiting"}
                  /\ (\A k \in 1..Len(ds) : ds[k] \notin DOMAIN completed)
                        => u.st = "inflight"
                  /\ u.st = "waiting" =>
                        /\ u.dep \in 1..Len(ds)
                        /\ ds[u.dep] \in DOMAIN completed
                        /\ u.waitEv = completed[ds[u.dep]]
                        /\ \A k \in 1..(u.dep - 1) :
                              ds[k] \in DOMAIN completed =>
                                  completed[ds[k]] \in evSet ]_vars

\* "b" has two configured prerequisites, neither in the batch: its connector
\* call is in flight and no gate has been signaled
C15_Witness ==
    /\ mode = "dependencies"
    /\ evSet = {}
    /\ \E id \in DOMAIN tasks :
          LET ds == DepsOf(Lower(tasks[id].type))
          IN  /\ id[1] = cycle
              /\ tasks[id].st = "inflight"
              /\ Len(ds) = 2
              /\ \A k \in 1..Len(ds) : ds[k] \notin DOMAIN completed

\* the task table without the record of which coroutine each task runs
Plain(ts) == [ id \in DOMAIN ts |-> [ts[id] EXCEPT !.kind = "plain"] ]

\* concurrent mode, or dependencies mode with an empty dependency graph
Unordered ==
    \/ mode = "concurrent"
    \/ mode = "dependencies" /\ deps = NoDeps

\* C16: dependencies mode with an empty graph and concurrent mode satisfy
\* one and the same description of what they queue and of what the tasks can
\* do: promise() returns at once having appended, in batch order, one new
\* task per resolved action; no task ever waits; a task changes only by
\* starting its connector call or by that call returning or raising, one
\* task per step; and each of these steps is possible whenever the task is
\* in the state for it, whatever the other tasks have done.
C16_EmptyGraphConcurrent ==
    /\ [](Unordered => (pc # "promise" /\ TasksIn("waiting") = {}))
    /\ [][ (Unordered /\ cycle' # cycle) =>
             \E b \in Batches :
                 LET idx == ResolvedIdx(b)
                 IN  /\ batch' = NormalizedUpTo(b, Len(b))
                     /\ queue' = queue \o NewIds(idx, cycle')
                     /\ Plain(tasks') =
                           Plain(tasks) @@ NewTasks(b, idx, cycle', "plain")
                     /\ pc' = "idle"
                     /\ ret' = RetPromise(FALSE) ]_vars
    /\ [][ Unordered =>
             \A id \in DOMAIN tasks \cap DOMAIN tasks' :
                 tasks'[id] # tasks[id] =>
                     /\ tasks'[id] = [tasks[id] EXCEPT !.st = tasks'[id].st]
                     /\ \/ tasks[id].st = "created" /\ tasks'[id].st = "inflight"
                        \/ tasks[id].st = "inflight" /\ Terminal(tasks'[id].st)
                     /\ \A other \in (DOMAIN tasks \cap DOMAIN tasks') \ {id} :
                           tasks'[other] = tasks[other] ]_vars
    /\ [](Unordered =>
             \A id \in DOMAIN tasks :
                 /\ tasks[id].st = "created" => ENABLED TaskStart(id)
                 /\ tasks[id].st = "inflight" =>
                       (ENABLED TaskReturn(id) /\ ENABLED TaskRaise(id)))

\* dependencies mode, empty graph, a batch of two resolved actions: promise()
\* has returned, the second action's call has returned and signaled its gate
\* while the first action's call is still in flight
C16_Witness ==
    /\ mode = "dependencies"
    /\ deps = NoDeps
    /\ pc = "idle"
    /\ queue = << <<cycle, 1>>, <<cycle, 2>> >>
    /\ tasks[<<cycle, 1>>].st = "inflight"
    /\ tasks[<<cycle, 2>>].st = "done"
    /\ evSet # {}

\* C17: a loop ends only at its test, with the stop signal set; setting the
\* signal moves no loop; a step invocation ends only by returning to the
\* test or by raising into the handler; no loop begins more than one step
\* invocation after the signal is set; and once stop() has returned every
\* loop has ended and no step invocation begins.
C17_CooperativeStop ==
    /\ [][ \A w \in 1..Len(loopPc) :
             (loopPc[w] # "exited" /\ loopPc'[w] = "exited") =>
                 (loopPc[w] = "top" /\ stopEvent) ]_vars
    /\ [][ stopEvent' # stopEvent =>
             (stopEvent' /\ loopPc' = loopPc /\ lateSteps' = lateSteps) ]_vars
    /\ [][ \A w \in 1..Len(loopPc) :
             (loopPc[w] = "step" /\ loopPc'[w] # "step") =>
                 loopPc'[w] \in {"top", "sleep"} ]_vars
    /\ [](\A w \in 1..Len(lateSteps) : lateSteps[w] <= 1)
    /\ [](stopPc = "returned" => \A w \in 1..Len(loopPc) : loopPc[w] = "exited")
    /\ [][ stopPc = "returned" =>
             \A w \in 1..Len(loopPc') : loopPc'[w] # "step" ]_vars

\* stop() is waiting: one step invocation that was in progress when the
\* signal was set is still running, and another loop, which had passed its
\* test before the signal, is inside its one further invocation
C17_Witness ==
    /\ stopEvent
    /\ stopPc = "joining"
    /\ \E v, w \in 1..Len(loopPc) :
          /\ loopPc[v] = "step" /\ lateSteps[v] = 0
          /\ loopPc[w] = "step" /\ lateSteps[w] = 1

\* the gates some task is suspended on
AwaitedGates == { tasks[id].waitEv : id \in TasksIn("waiting") }

\* C18: every promise() call installs a table of new gates, none of them
\* signaled or awaited by any task; a gate is signaled only while it is in
\* the table; so a task suspended on a gate that is no longer in the table
\* and was not signaled stays suspended on it in every later state.
C18_TableReplaced ==
    /\ [][ cycle' # cycle =>
             Range(completed') \cap (Range(completed) \cup evSet \cup AwaitedGates)
                 = {} ]_vars
    /\ [][ (evSet' \ evSet) \subseteq Range(completed) ]_vars
    /\ [][ \A id \in DOMAIN tasks :
             (/\ tasks[id].st = "waiting"
              /\ tasks[id].waitEv \notin evSet
              /\ tasks[id].waitEv \notin Range(completed)) =>
                 /\ id \in DOMAIN tasks'
                 /\ tasks'[id] = tasks[id]
                 /\ tasks[id].waitEv \notin evSet'
                 /\ tasks[id].waitEv \notin Range(completed') ]_vars

\* after a second promise(): a task of the first cycle is suspended on a gate
\* of the first table, which is gone and unsignaled; the owner of that gate,
\* also of the first cycle, has returned and signaled the gate of its label
\* in the second table, whose own tasks have not started a connector call
C18_Witness ==
    /\ mode = "dependencies"
    /\ cycle = 2
    /\ \E id, owner \in DOMAIN tasks :
          /\ id[1] = 1 /\ owner[1] = 1
          /\ tasks[id].st = "waiting"
          /\ tasks[id].waitEv = <<1, Lower(tasks[owner].type)>>
          /\ tasks[id].waitEv \notin evSet
          /\ tasks[id].waitEv \notin Range(completed)
          /\ tasks[owner].st = "done"
          /\ <<2, Lower(tasks[owner].type)>> \in evSet
    /\ \A id \in DOMAIN tasks : id[1] = 2 => ~Started(tasks[id].st)

\* the configured dependency graph has no cycle and no self-reference
Acyclic == Prune(DOMAIN deps, Cardinality(DOMAIN deps)) = {}

\* state of task id; "none" while there is no such task
TaskSt(id) == IF id \in DOMAIN tasks THEN tasks[id].st ELSE "none"

\* C19 (as claimed): in dependencies mode with an acyclic graph and one
\* promise() call, every task that call queued eventually reaches a terminal
\* state, and a flush_promises() that has begun eventually returns.
C19_DepsTerminate ==
    /\ \A id \in TaskIds :
          (Acyclic /\ TaskSt(id) # "none") ~> (TaskSt(id) \in {"done", "failed", "none"})
    /\ (Acyclic /\ pc = "flush") ~> (pc = "idle")

\* C20 (as claimed): every submitted collaborator gets its own running
\* worker loop: while the stop signal is unset, a loop that has been
\* submitted and has not begun to run has a pool thread free to run it.  (A
\* loop ends only with the stop signal set, so a loop left without a thread
\* never invokes its step operation while the signal is unset.)
C20_EveryLoopRuns ==
    ~stopEvent =>
        \A w \in 1..Len(loopPc) :
            loopPc[w] = "queued" =>
                Cardinality({ v \in 1..Len(loopPc) : Running(loopPc[v]) }) < MaxWorkers

=============================================================================
